---- MODULE Spec2Model ----
(***************************************************************************)
(* Model of bookdata/db.py: the SQL-script executor (SqlScript.execute,    *)
(* SqlScript._run_step) running against a psycopg2 connection, and the     *)
(* stage/file ledger (save_file, start_stage, finish_stage), the script    *)
(* parser (SqlScript._parse and its helpers) and the tasks of loc.py.      *)
(***************************************************************************)
EXTENDS Integers, Sequences, FiniteSets, TLC

\* ------------------------------------------------------------------ bounds
MaxChunks == 2
MaxStmts == 2
MaxCalls == 3
MaxLines == 4

\* ------------------------------------------------- executor: value domains
\* pgcode of a raised psycopg2.Error; NoCode is e.pgcode = None.
NoCode == "None"
AllowableCodes == {"42P07"}
PgCodes == AllowableCodes \cup {"23505"}
ErrCodes == PgCodes \cup {NoCode}
NoExc == "NoExc"
\* cursor.rowcount after a statement: -1 when the backend reports none.
RowCounts == {-1, 1}

\* ScriptChunk, with the statement list reduced to its length.
ScriptChunk == [use_transaction : BOOLEAN,
                allowed_errors : SUBSET AllowableCodes,
                nstmts : 0..MaxStmts]

Scripts == UNION {[1..n -> ScriptChunk] : n \in 0..MaxChunks}

VARIABLES
    chunks,      \* self.chunks
    pc,          \* position of execute: loop, step, exit, returned, raised
    ci,          \* index of the chunk the for loop of execute is at
    si,          \* index of the next statement of the chunk in _run_step
    exc,         \* exception in flight while the chunk's scopes unwind
    raisedErr,   \* pgcode of the error execute raised to its caller
    autocommit,  \* dbc.autocommit
    ac,          \* local ac of execute
    acInit,      \* dbc.autocommit when execute was called
    txStatus,    \* transaction status of dbc: idle, intrans, inerror
    committed,   \* statement effects durable in the database
    pending,     \* statement effects of the open transaction
    curOpen,     \* the chunk's cursor is open
    closed,      \* dbc has been closed
    execLog,     \* statements handed to cur.execute, with their outcome
    sink,        \* a transcript file was supplied
    transcript   \* lines printed to the transcript

execVars == <<chunks, pc, ci, si, exc, raisedErr, autocommit, ac, acInit,
              txStatus, committed, pending, curOpen, closed, execLog, sink,
              transcript>>

\* ---------------------------------------------------- ledger: value domains
\* SQL NULL / Python None
NULL == "NULL"
\* SQL NULL in a TIMESTAMP column
NullTime == -1
Stages == {"x", "y"}
Keys == {NULL, "k"}
Checksums == {"h1", "h2"}
\* paths handed to save_file, as character sequences
RawPaths == {<<"a">>, <<".", "/", "a">>, <<"d", "/", "/", "a">>}

VARIABLES
    stage_status,  \* rows of table stage_status, as seen through the session
    source_file,   \* rows of table source_file
    stage_file,    \* rows of table stage_file
    calls,         \* ledger calls whose statements took effect in these rows
    saved,         \* the committed tables, with the calls they result from
    lauto,         \* autocommit of the connection behind the ledger handle
    ltx,           \* transaction status of that connection
    clock,         \* value now() returns
    lastCall       \* the ledger call made last and how it ended

ledgerVars == <<stage_status, source_file, stage_file, calls, saved, lauto,
                ltx, clock, lastCall>>

\* ---------------------------------------------------- parser: value domains
\* A line is a sequence of characters; a word (a run of \w characters) is
\* kept as one element.  No line below has two words next to each other.
LStepA == <<"-", "-", "-", " ", "#", "step", " ", "a">>
LStepB == <<"-", "-", "-", "#", "step", " ", "b", " ">>
LStepNone == <<"-", "-", "-", " ", "#", "step">>
LNotx == <<"-", "-", "-", " ", "#", "notx">>
LAllow == <<"-", "-", "-", " ", "#", "allow", " ", "duplicate_table">>
LAllowBad == <<"-", "-", "-", " ", "#", "allow", " ", "bogus">>
LFrob == <<"-", "-", "-", " ", "#", "frob">>
LNote == <<"-", "-", "-", " ", "note">>
LIndented == <<" ", "-", "-", "-", " ", "#", "notx">>
LSql == <<"q">>
LBlank == <<" ">>

InputLines == {LStepA, LStepB, LStepNone, LNotx, LAllow, LAllowBad, LFrob,
               LNote, LIndented, LSql, LBlank}

Texts == UNION {[1..n -> InputLines] : n \in 0..MaxLines}

\* label=None of a ScriptChunk, args=None of a directive
NoLabel == <<"None">>
\* no SqlScript object: __init__ raised, or has not finished
NoScript == <<"NoScript">>

VARIABLES
    lines,       \* the lines of the file handed to SqlScript
    pos,         \* how many lines the peekable has given out
    parsed,      \* self.chunks while _parse builds it
    ppc,         \* position of __init__: parsing, done, error
    perr,        \* the exception __init__ raised
    script,      \* chunks of the constructed SqlScript
    eaten,       \* for each line given out, the phase that took it
    ncalls,      \* number of _parse_chunk calls made
    pass,        \* 1 for the first parse of the text, 2 for the second
    firstScript  \* chunks the first parse of the text produced

parserVars == <<lines, pos, parsed, ppc, perr, script, eaten, ncalls, pass,
                firstScript>>

\* ------------------------------------------------------ tasks: value domains
VARIABLES
    task,        \* the task of loc.py that was invoked
    force,       \* its force flag
    convert,     \* its convert flag
    tpc,         \* position in the task body
    tlog         \* calls made to the support module, with their outcome

taskVars == <<task, force, convert, tpc, tlog>>

vars == <<execVars, ledgerVars, parserVars, taskVars>>

\* ------------------------------------------------ psycopg2 connection model
\* connection.commit(): COMMIT of a failed transaction is a ROLLBACK.
DbCommit(st, comm, pend) == IF st = "intrans" THEN comm \cup pend ELSE comm

\* cur.execute outside autocommit opens a transaction on first use.
StatusAfter(auto, st, outcome) ==
    IF auto THEN st
    ELSE IF outcome = "ok" THEN "intrans" ELSE "inerror"

CommittedAfter(auto, comm, eff, outcome) ==
    IF auto /\ outcome = "ok" THEN comm \cup {eff} ELSE comm

PendingAfter(auto, pend, eff, outcome) ==
    IF ~auto /\ outcome = "ok" THEN pend \cup {eff} ELSE pend

\* --------------------------------------------------------------- executor
Print_(line) == IF sink THEN Append(transcript, line) ELSE transcript

ToleratedMut(code, step) == TRUE
\* e.pgcode in step.allowed_errors
Tolerated(code, step) == code \in step.allowed_errors

NextStmtMut(i) == i + 2
\* the for loop over step.statements
NextStmt(i) == i + 1

ForceAutocommitMut(current) == current
\* dbc.autocommit = True
ForceAutocommit(current) == TRUE

RowsKnownMut(rows) == TRUE
\* rows is not None and rows >= 0   (cur.rowcount is -1 when unknown)
RowsKnown(rows) == rows >= 0

RestoreAutocommitMut(prior, current, e) == IF e = NoExc THEN prior ELSE current
\* finally: dbc.autocommit = ac
RestoreAutocommit(prior, current, e) == prior

ExecInit ==
    /\ chunks \in Scripts
    /\ pc = "loop"
    /\ ci = 1
    /\ si = 1
    /\ exc = NoExc
    /\ raisedErr = NoExc
    /\ autocommit \in BOOLEAN
    /\ ac = autocommit
    /\ acInit = autocommit
    /\ txStatus = "idle"
    /\ committed = {}
    /\ pending = {}
    /\ curOpen = FALSE
    /\ closed = FALSE
    /\ execLog = <<>>
    /\ sink \in BOOLEAN
    /\ transcript = <<>>

\* for step in self.chunks: ... entering the chunk's scopes
EnterChunk ==
    /\ pc = "loop"
    /\ ci <= Len(chunks)
    /\ transcript' = Print_(<<"CHUNK", ci>>)
    /\ IF chunks[ci].use_transaction
          THEN UNCHANGED <<ac, autocommit>>
          ELSE /\ ac' = autocommit
               /\ autocommit' = ForceAutocommit(autocommit)
    /\ curOpen' = TRUE
    /\ si' = 1
    /\ pc' = "step"
    /\ UNCHANGED <<chunks, ci, exc, raisedErr, acInit, txStatus, committed,
                   pending, closed, execLog, sink>>
    /\ UNCHANGED <<ledgerVars, parserVars, taskVars>>

\* one iteration of the statement loop of _run_step
ExecStmt(outcome, rows) ==
    /\ pc = "step"
    /\ si <= chunks[ci].nstmts
    /\ execLog' = Append(execLog, [chunk |-> ci, stmt |-> si, outcome |-> outcome,
                                   rows |-> IF outcome = "ok" THEN rows ELSE -1])
    /\ txStatus' = StatusAfter(autocommit, txStatus, outcome)
    /\ committed' = CommittedAfter(autocommit, committed, <<ci, si>>, outcome)
    /\ pending' = PendingAfter(autocommit, pending, <<ci, si>>, outcome)
    /\ IF outcome = "ok"
          THEN /\ transcript' =
                     IF ~sink THEN transcript
                     ELSE IF RowsKnown(rows)
                          THEN transcript \o <<<<"STMT", ci, si>>, <<"ELAPSED">>, <<"ROWS", rows>>>>
                          ELSE transcript \o <<<<"STMT", ci, si>>, <<"ELAPSED">>>>
               /\ si' = NextStmt(si)
               /\ UNCHANGED <<pc, exc>>
          ELSE /\ si' = si
               /\ pc' = "exit"
               /\ IF Tolerated(outcome, chunks[ci])
                     THEN /\ transcript' =
                                IF sink
                                THEN transcript \o <<<<"STMT", ci, si>>, <<"ERROR", outcome>>>>
                                ELSE transcript
                          /\ exc' = NoExc
                     ELSE /\ transcript' = Print_(<<"STMT", ci, si>>)
                          /\ exc' = outcome
    /\ UNCHANGED <<chunks, ci, raisedErr, autocommit, ac, acInit, curOpen,
                   closed, sink>>
    /\ UNCHANGED <<ledgerVars, parserVars, taskVars>>

\* if commit: dbc.commit()   (end of the try block of _run_step)
FinishStep ==
    /\ pc = "step"
    /\ si > chunks[ci].nstmts
    /\ IF chunks[ci].use_transaction
          THEN /\ committed' = DbCommit(txStatus, committed, pending)
               /\ pending' = {}
               /\ txStatus' = "idle"
          ELSE UNCHANGED <<committed, pending, txStatus>>
    /\ pc' = "exit"
    /\ exc' = NoExc
    /\ UNCHANGED <<chunks, ci, si, raisedErr, autocommit, ac, acInit, curOpen,
                   closed, execLog, sink, transcript>>
    /\ UNCHANGED <<ledgerVars, parserVars, taskVars>>

\* leaving "with dbc, dbc.cursor() as cur" or the try/finally of a notx chunk
ExitChunk ==
    /\ pc = "exit"
    /\ curOpen' = FALSE
    /\ IF chunks[ci].use_transaction
          THEN /\ committed' = IF exc = NoExc
                                  THEN DbCommit(txStatus, committed, pending)
                                  ELSE committed
               /\ pending' = {}
               /\ txStatus' = "idle"
               /\ UNCHANGED autocommit
          ELSE /\ autocommit' = RestoreAutocommit(ac, autocommit, exc)
               /\ UNCHANGED <<committed, pending, txStatus>>
    /\ IF exc = NoExc
          THEN /\ ci' = ci + 1
               /\ pc' = "loop"
               /\ UNCHANGED raisedErr
          ELSE /\ raisedErr' = exc
               /\ pc' = "raised"
               /\ UNCHANGED ci
    /\ exc' = NoExc
    /\ UNCHANGED <<chunks, si, ac, acInit, closed, execLog, sink, transcript>>
    /\ UNCHANGED <<ledgerVars, parserVars, taskVars>>

\* the for loop of execute is exhausted
Return ==
    /\ pc = "loop"
    /\ ci > Len(chunks)
    /\ pc' = "returned"
    /\ UNCHANGED <<chunks, ci, si, exc, raisedErr, autocommit, ac, acInit,
                   txStatus, committed, pending, curOpen, closed, execLog,
                   sink, transcript>>
    /\ UNCHANGED <<ledgerVars, parserVars, taskVars>>

\* ------------------------------------------------------------------ ledger
\* Path(path).as_posix() of a POSIX path: empty and "." components dropped,
\* components joined by one "/", a leading "/" kept ("//" when exactly two).
RECURSIVE Components(_, _)
Components(p, cur) ==
    IF p = <<>> THEN <<cur>>
    ELSE IF Head(p) = "/" THEN <<cur>> \o Components(Tail(p), <<>>)
    ELSE Components(Tail(p), Append(cur, Head(p)))

RECURSIVE JoinParts(_)
JoinParts(parts) ==
    IF parts = <<>> THEN <<>>
    ELSE IF Head(parts) = <<>> \/ Head(parts) = <<".">> THEN JoinParts(Tail(parts))
    ELSE LET rest == JoinParts(Tail(parts))
         IN IF rest = <<>> THEN Head(parts) ELSE Head(parts) \o <<"/">> \o rest

Root(p) ==
    IF Len(p) >= 1 /\ p[1] = "/"
       THEN IF Len(p) >= 2 /\ p[2] = "/" /\ ~(Len(p) >= 3 /\ p[3] = "/")
               THEN <<"/", "/">>
               ELSE <<"/">>
       ELSE <<>>

AsPosix(p) ==
    LET body == JoinParts(Components(p, <<>>))
    IN IF Root(p) = <<>> /\ body = <<>> THEN <<".">> ELSE Root(p) \o body

StageNames(ss) == {r.stage_name : r \in ss}
FileNames(sf) == {r.filename : r \in sf}

UpsertSourceFileMut(sf, fn, hash, now) ==
    IF fn \in FileNames(sf) THEN sf
    ELSE sf \cup {[filename |-> fn, reg_time |-> now, checksum |-> hash]}
\* INSERT INTO source_file ... ON CONFLICT (filename) DO UPDATE SET ...
UpsertSourceFile(sf, fn, hash, now) ==
    IF fn \in FileNames(sf)
       THEN {IF r.filename = fn
                THEN [r EXCEPT !.reg_time = now, !.checksum = hash]
                ELSE r : r \in sf}
       ELSE sf \cup {[filename |-> fn, reg_time |-> now, checksum |-> hash]}

\* INSERT INTO stage_file: the constraint the row violates, or "ok"
StageFileError(ss, sf, stf, stage, fn) ==
    IF stage \notin StageNames(ss) \/ fn \notin FileNames(sf) THEN "23503"
    ELSE IF [stage_name |-> stage, filename |-> fn] \in stf THEN "23505"
    ELSE "ok"

InsertStageFile(stf, stage, fn) == stf \cup {[stage_name |-> stage, filename |-> fn]}

UpsertStageStatusMut(ss, stage, now) ==
    IF stage \in StageNames(ss)
       THEN {IF r.stage_name = stage THEN [r EXCEPT !.started_at = now] ELSE r : r \in ss}
       ELSE ss \cup {[stage_name |-> stage, started_at |-> now,
                      finished_at |-> NullTime, stage_key |-> NULL]}
\* INSERT INTO stage_status ... ON CONFLICT (stage_name) DO UPDATE SET ...
UpsertStageStatus(ss, stage, now) ==
    IF stage \in StageNames(ss)
       THEN {IF r.stage_name = stage
                THEN [r EXCEPT !.started_at = now, !.finished_at = NullTime,
                               !.stage_key = NULL]
                ELSE r : r \in ss}
       ELSE ss \cup {[stage_name |-> stage, started_at |-> now,
                      finished_at |-> NullTime, stage_key |-> NULL]}

DeleteStageFilesMut(stf, stage) == stf
\* DELETE FROM stage_file WHERE stage_name = %s
DeleteStageFiles(stf, stage) == {r \in stf : r.stage_name # stage}

\* UPDATE stage_status SET finished_at = NOW(), stage_key = ... WHERE ...
UpdateStageStatus(ss, stage, key, now) ==
    {IF r.stage_name = stage
        THEN [r EXCEPT !.finished_at = now, !.stage_key = key]
        ELSE r : r \in ss}

Tables(ss, sf, stf) == [stage_status |-> ss, source_file |-> sf, stage_file |-> stf]
View == Tables(stage_status, source_file, stage_file)

CallEntry(op, stage, key, path, hash, res) ==
    [op |-> op, stage |-> stage, key |-> key, path |-> path, hash |-> hash,
     at |-> clock, res |-> res]

\* the tables as meta_schema creates them; its seed row names the stage
\* 'init', which is none of the stages the calls below name
LedgerInit ==
    /\ stage_status = {}
    /\ source_file = {}
    /\ stage_file = {}
    /\ calls = <<>>
    /\ saved = [tables |-> Tables({}, {}, {}), calls |-> <<>>]
    /\ lauto \in BOOLEAN
    /\ ltx = "idle"
    /\ clock = 0
    /\ lastCall = [op |-> "none", form |-> "none", stage |-> NULL, res |-> "none", issued |-> 0]

\* The end of a ledger call made with a cursor: tabs and log are the rows
\* and the calls after the statements that succeeded, res is "ok" or the
\* pgcode of the statement that failed.
CursorCall(op, stage, tabs, log, res, issued) ==
    /\ stage_status' = tabs.stage_status
    /\ source_file' = tabs.source_file
    /\ stage_file' = tabs.stage_file
    /\ calls' = log
    /\ saved' = IF lauto THEN [tables |-> tabs, calls |-> log] ELSE saved
    /\ ltx' = IF lauto THEN "idle"
              ELSE IF res = "ok" THEN "intrans"
              ELSE "inerror"
    /\ lastCall' = [op |-> op, form |-> "cursor", stage |-> stage, res |-> res,
                    issued |-> issued]

\* after the with block the connection form goes on to cur.execute on the
\* connection, which has no such attribute
ConnResult(res) == IF res = "ok" THEN "AttributeError" ELSE res

\* The end of a ledger call made with a connection: "with cur, cur.cursor()"
\* commits when the cursor form returned and rolls back when it raised.
ConnCall(op, stage, tabs, log, res, issued) ==
    LET keep == res = "ok" \/ lauto
        t == IF keep THEN tabs ELSE saved.tables
        l == IF keep THEN log ELSE saved.calls
    IN /\ stage_status' = t.stage_status
       /\ source_file' = t.source_file
       /\ stage_file' = t.stage_file
       /\ calls' = l
       /\ saved' = [tables |-> t, calls |-> l]
       /\ ltx' = "idle"
       /\ lastCall' = [op |-> op, form |-> "conn", stage |-> stage,
                       res |-> ConnResult(res), issued |-> issued]

LedgerCall(form, op, stage, tabs, log, res, issued) ==
    /\ clock < MaxCalls
    /\ clock' = clock + 1
    /\ UNCHANGED <<lauto, execVars, parserVars, taskVars>>
    /\ IF form = "conn"
          THEN ConnCall(op, stage, tabs, log, res, issued)
          ELSE CursorCall(op, stage, tabs, log, res, issued)

\* start_stage(cur, stage)
StartStage(form, stage) ==
    IF ltx = "inerror"
       THEN LedgerCall(form, "start", stage, View, calls, "25P02", 1)
       ELSE LedgerCall(form, "start", stage,
                Tables(UpsertStageStatus(stage_status, stage, clock),
                       source_file,
                       DeleteStageFiles(stage_file, stage)),
                Append(calls, CallEntry("start", stage, NULL, <<>>, NULL, "ok")),
                "ok", 2)

\* finish_stage(cur, stage, key)
FinishStage(form, stage, key) ==
    IF ltx = "inerror"
       THEN LedgerCall(form, "finish", stage, View, calls, "25P02", 1)
       ELSE LedgerCall(form, "finish", stage,
                Tables(UpdateStageStatus(stage_status, stage, key, clock),
                       source_file, stage_file),
                Append(calls, CallEntry("finish", stage, key, <<>>, NULL, "ok")),
                "ok", 1)

\* save_file(cur, path, stage); hash is the digest of the file's content,
\* readable is whether open/read succeed
SaveFile(path, readable, hash, stage) ==
    IF ~readable
       THEN LedgerCall("cursor", "register", stage, View, calls, "IOError", 0)
    ELSE IF ltx = "inerror"
       THEN LedgerCall("cursor", "register", stage, View, calls, "25P02", 1)
    ELSE LET fn == AsPosix(path)
             sf1 == UpsertSourceFile(source_file, fn, hash, clock)
             err == IF stage = NULL THEN "ok"
                    ELSE StageFileError(stage_status, sf1, stage_file, stage, fn)
             stf1 == IF stage # NULL /\ err = "ok"
                        THEN InsertStageFile(stage_file, stage, fn)
                        ELSE stage_file
         IN LedgerCall("cursor", "register", stage,
                Tables(stage_status, sf1, stf1),
                Append(calls, CallEntry("register", stage, NULL, path, hash, err)),
                err, IF stage = NULL THEN 1 ELSE 2)

\* connect(): the connection is closed on exit, which discards the open
\* transaction; the next ledger call uses a fresh connection
Reconnect ==
    /\ ltx # "idle"
    /\ stage_status' = saved.tables.stage_status
    /\ source_file' = saved.tables.source_file
    /\ stage_file' = saved.tables.stage_file
    /\ calls' = saved.calls
    /\ ltx' = "idle"
    /\ UNCHANGED <<saved, lauto, clock, lastCall, execVars, parserVars,
                   taskVars>>

LedgerNext ==
    \/ \E f \in {"cursor", "conn"}, st \in Stages : StartStage(f, st)
    \/ \E f \in {"cursor", "conn"}, st \in Stages, k \in Keys : FinishStage(f, st, k)
    \/ \E p \in RawPaths, r \in BOOLEAN, h \in Checksums, st \in Stages \cup {NULL} :
          SaveFile(p, r, h, st)
    \/ Reconnect


\* ------------------------------------------------------------------ parser
IsSpace(c) == c = " "
IsWord(c) == c \notin {" ", "-", "#"}

RECURSIVE LStrip(_)
LStrip(l) == IF l # <<>> /\ IsSpace(Head(l)) THEN LStrip(Tail(l)) ELSE l

RECURSIVE RStrip(_)
RStrip(l) ==
    IF l # <<>> /\ IsSpace(l[Len(l)]) THEN RStrip(SubSeq(l, 1, Len(l) - 1)) ELSE l

\* not line.strip()
IsBlank(l) == LStrip(l) = <<>>

SepMatchMut(l) ==
    LET t == LStrip(l)
    IN Len(t) >= 3 /\ t[1] = "-" /\ t[2] = "-" /\ t[3] = "-"
\* _sep_re.match(line): the line starts with three dashes
SepMatch(l) == Len(l) >= 3 /\ l[1] = "-" /\ l[2] = "-" /\ l[3] = "-"

\* hm.group('inst'): what follows the dashes and the whitespace after them
SepInst(l) == LStrip(SubSeq(l, 4, Len(l)))

\* _icode_re.match(inst): "#" and at least one word character
ICodeMatch(inst) == Len(inst) >= 2 /\ inst[1] = "#" /\ IsWord(inst[2])

RECURSIVE WordRun(_)
WordRun(l) ==
    IF l # <<>> /\ IsWord(Head(l)) THEN <<Head(l)>> \o WordRun(Tail(l)) ELSE <<>>

\* cm.group('code')
ICode(inst) == WordRun(Tail(inst))

\* cm.group('args'): the rest without the whitespace around it, or None
IArgs(inst) ==
    LET rest == SubSeq(inst, 2 + Len(ICode(inst)), Len(inst))
        a == RStrip(LStrip(rest))
    IN IF a = <<>> THEN NoLabel ELSE a

\* str.upper() on the words the lines use
UpperWord(w) == IF w = "duplicate_table" THEN "DUPLICATE_TABLE" ELSE w

\* the names psycopg2.errorcodes defines, with their codes
ErrorCodeNames == {"DUPLICATE_TABLE", "UNIQUE_VIOLATION"}
ErrorCodeOf(name) == IF name = "DUPLICATE_TABLE" THEN "42P07" ELSE "23505"

\* getattr(psycopg2.errorcodes, args.upper()) succeeds
Resolvable(args) ==
    /\ args # NoLabel
    /\ Len(args) = 1
    /\ UpperWord(args[1]) \in ErrorCodeNames

StepLabelMut(old, args) == IF old = NoLabel THEN args ELSE old
\* label = args
StepLabel(old, args) == args

InstructionErrorMut(code, args) ==
    IF code = <<"allow">> /\ ~Resolvable(args) THEN "AttributeError" ELSE "none"
\* the exception a directive raises, if any
InstructionError(code, args) ==
    IF code = <<"step">> \/ code = <<"notx">> THEN "none"
    ELSE IF code = <<"allow">>
         THEN IF Resolvable(args) THEN "none" ELSE "AttributeError"
    ELSE "ValueError"

\* _read_header from line i on: the header values and the first line left
RECURSIVE ReadHeader(_, _, _, _)
ReadHeader(i, label, errs, tx) ==
    IF i > Len(lines) \/ ~SepMatch(lines[i])
       THEN [next |-> i, label |-> label, errs |-> errs, tx |-> tx, err |-> "none"]
    ELSE LET inst == SepInst(lines[i]) IN
         IF ~ICodeMatch(inst) THEN ReadHeader(i + 1, label, errs, tx)
         ELSE LET code == ICode(inst)
                  args == IArgs(inst)
                  e == InstructionError(code, args)
              IN IF e # "none"
                    THEN [next |-> i + 1, label |-> label, errs |-> errs,
                          tx |-> tx, err |-> e]
                 ELSE IF code = <<"step">>
                    THEN ReadHeader(i + 1, StepLabel(label, args), errs, tx)
                 ELSE IF code = <<"allow">>
                    THEN ReadHeader(i + 1, label,
                                    Append(errs, ErrorCodeOf(UpperWord(args[1]))), tx)
                 ELSE IF code = <<"notx">>
                    THEN ReadHeader(i + 1, label, errs, FALSE)
                 ELSE ReadHeader(i + 1, label, errs, tx)

\* the first loop of _read_query from line i on: the first line it leaves
RECURSIVE QueryEnd(_)
QueryEnd(i) ==
    IF i <= Len(lines) /\ ~SepMatch(lines[i]) THEN QueryEnd(i + 1) ELSE i

RECURSIVE TrimHead(_)
TrimHead(qls) == IF qls # <<>> /\ IsBlank(Head(qls)) THEN TrimHead(Tail(qls)) ELSE qls

RECURSIVE TrimTail(_)
TrimTail(qls) ==
    IF qls # <<>> /\ IsBlank(qls[Len(qls)])
       THEN TrimTail(SubSeq(qls, 1, Len(qls) - 1))
       ELSE qls

TrimMut(qls) == qls
\* the two trimming loops of _read_query
Trim(qls) == TrimTail(TrimHead(qls))

QueryResultMut(qls, more) == IF qls # <<>> THEN "chunk" ELSE "empty"
\* what _parse_chunk makes of the lines _read_query returned
QueryResult(qls, more) ==
    IF qls # <<>> THEN "chunk"
    ELSE IF more THEN "empty"
    ELSE "eof"

ChunkNumberMut(chs, n) == n
\* len(self.chunks) + 1
ChunkNumber(chs, n) == Len(chs) + 1

\* f'Step {n}'
DefaultLabel(n) == <<"Step", n>>

Phases(n, ph) == [i \in 1..n |-> ph]

ParserInit ==
    /\ lines \in Texts
    /\ pos = 0
    /\ parsed = <<>>
    /\ ppc = "parsing"
    /\ perr = NoExc
    /\ script = NoScript
    /\ eaten = <<>>
    /\ ncalls = 0
    /\ pass = 1
    /\ firstScript = NoScript

\* one call of _parse_chunk from the loop of _parse
ParseChunk ==
    /\ ppc = "parsing"
    /\ ncalls <= Len(lines) + 1
    /\ ncalls' = ncalls + 1
    /\ LET h == ReadHeader(pos + 1, NoLabel, <<>>, TRUE)
           qend == QueryEnd(h.next)
           qls == Trim(SubSeq(lines, h.next, qend - 1))
           res == QueryResult(qls, qend <= Len(lines))
           n == ChunkNumber(parsed, ncalls + 1)
       IN IF h.err # "none"
             THEN /\ ppc' = "error"
                  /\ perr' = h.err
                  /\ pos' = h.next - 1
                  /\ eaten' = eaten \o Phases(h.next - 1 - pos, "header")
                  /\ UNCHANGED <<parsed, script>>
             ELSE /\ pos' = qend - 1
                  /\ eaten' = eaten \o Phases(h.next - 1 - pos, "header")
                                    \o Phases(qend - h.next, "body")
                  /\ perr' = NoExc
                  /\ parsed' =
                        IF res = "chunk"
                           THEN Append(parsed,
                                   [label |-> IF h.label = NoLabel
                                                 THEN DefaultLabel(n)
                                                 ELSE h.label,
                                    allowed_errors |-> h.errs,
                                    src |-> qls,
                                    use_transaction |-> h.tx])
                           ELSE parsed
                  /\ ppc' = IF res = "eof" THEN "done" ELSE "parsing"
                  /\ script' = IF res = "eof" THEN parsed ELSE script
    /\ UNCHANGED <<lines, pass, firstScript>>
    /\ UNCHANGED <<execVars, ledgerVars, taskVars>>

\* SqlScript is constructed again on the same text
Reparse ==
    /\ ppc = "done"
    /\ pass = 1
    /\ pass' = 2
    /\ firstScript' = script
    /\ pos' = 0
    /\ parsed' = <<>>
    /\ ppc' = "parsing"
    /\ perr' = NoExc
    /\ script' = NoScript
    /\ eaten' = <<>>
    /\ ncalls' = 0
    /\ UNCHANGED lines
    /\ UNCHANGED <<execVars, ledgerVars, taskVars>>

ParserNext ==
    \/ ParseChunk
    \/ Reparse


\* ------------------------------------------------- executor: observations
LogIdx == 1..Len(execLog)

\* execLog[i] is an error the chunk's allow list does not cover / covers
FatalAt(i) ==
    /\ execLog[i].outcome # "ok"
    /\ execLog[i].outcome \notin chunks[execLog[i].chunk].allowed_errors

ToleratedAt(i) ==
    /\ execLog[i].outcome # "ok"
    /\ execLog[i].outcome \in chunks[execLog[i].chunk].allowed_errors

Executed(k, s) == \E i \in LogIdx : execLog[i].chunk = k /\ execLog[i].stmt = s

ExecutedOk(k, s) ==
    \E i \in LogIdx : /\ execLog[i].chunk = k
                      /\ execLog[i].stmt = s
                      /\ execLog[i].outcome = "ok"

FailedIn(k) == \E i \in LogIdx : execLog[i].chunk = k /\ execLog[i].outcome # "ok"

\* chunk k was run to its end: all statements, or up to a tolerated error
ChunkRan(k) ==
    \/ \A s \in 1..chunks[k].nstmts : ExecutedOk(k, s)
    \/ \E i \in LogIdx : execLog[i].chunk = k /\ ToleratedAt(i)

\* all statements of the script in chunk order, then source order
RECURSIVE StmtsOf(_, _)
StmtsOf(k, s) ==
    IF s > chunks[k].nstmts THEN <<>> ELSE <<<<k, s>>>> \o StmtsOf(k, s + 1)

RECURSIVE FlatFrom(_)
FlatFrom(k) ==
    IF k > Len(chunks) THEN <<>> ELSE StmtsOf(k, 1) \o FlatFrom(k + 1)

LogStmts == [i \in LogIdx |-> <<execLog[i].chunk, execLog[i].stmt>>]

\* ---------------------------------------------------------------- claims
\* C1: a statement error whose code is not in the chunk's allowed_errors is
\* re-raised by execute, and it is the last statement ever executed (nothing
\* more of chunk k, nothing of a later chunk); execute raises only for such
\* an error, and returns only after every chunk has been run.
C1_FatalErrorAbortsScript ==
    /\ \A i \in LogIdx :
          FatalAt(i) =>
             /\ i = Len(execLog)
             /\ ci = execLog[i].chunk
             /\ pc \in {"exit", "raised"}
             /\ pc = "exit" => exc = execLog[i].outcome
             /\ pc = "raised" => raisedErr = execLog[i].outcome
    /\ pc = "raised" => \E i \in LogIdx : FatalAt(i)
    /\ pc = "returned" =>
          /\ \A i \in LogIdx : ~FatalAt(i)
          /\ \A k \in 1..Len(chunks) : ChunkRan(k)

C1_Witness ==
    /\ pc = "raised"
    /\ ci < Len(chunks)
    /\ chunks[ci + 1].nstmts > 0
    /\ execLog[Len(execLog)].stmt < chunks[ci].nstmts

C4_EveryStatementExactlyOnce ==
    /\ LogStmts = SubSeq(FlatFrom(1), 1, Len(execLog))
    /\ \A e \in pending : e[1] = ci /\ pc \in {"step", "exit"}

\* C4 amended: statements are executed in chunk order then source order,
\* each at most once and without gaps inside a chunk; a statement of a chunk
\* that has finished is skipped only when an earlier statement of the same
\* chunk failed; the open transaction holds work of the current chunk only.
C4_OrderedAtMostOnce ==
    /\ \A i \in LogIdx :
          /\ execLog[i].chunk \in 1..Len(chunks)
          /\ execLog[i].stmt \in 1..chunks[execLog[i].chunk].nstmts
          /\ execLog[i].chunk <= ci
          /\ execLog[i].stmt > 1 =>
                /\ i > 1
                /\ execLog[i - 1].chunk = execLog[i].chunk
                /\ execLog[i - 1].stmt = execLog[i].stmt - 1
                /\ execLog[i - 1].outcome = "ok"
          /\ \A j \in LogIdx :
                j > i => \/ execLog[j].chunk > execLog[i].chunk
                         \/ /\ execLog[j].chunk = execLog[i].chunk
                            /\ execLog[j].stmt > execLog[i].stmt
    /\ \A k \in 1..Len(chunks) :
          (k < ci \/ pc = "exit") /\ k <= ci =>
             \/ FailedIn(k)
             \/ \A s \in 1..chunks[k].nstmts : Executed(k, s)
    /\ \A e \in pending : e[1] = ci /\ pc \in {"step", "exit"}

\* a tolerated error skipped the rest of its chunk and a later chunk ran
C4_Witness ==
    \E i \in LogIdx :
       /\ ToleratedAt(i)
       /\ execLog[i].stmt < chunks[execLog[i].chunk].nstmts
       /\ \E j \in LogIdx : j > i /\ execLog[j].stmt = 2

\* C5: autocommit is forced on exactly while a notx chunk runs and equals
\* its value at the call of execute everywhere else, in particular after
\* execute returned or raised; the connection is never closed.
C5_AutocommitRestored ==
    /\ ~closed
    /\ pc \in {"loop", "returned", "raised"} => autocommit = acInit
    /\ pc \in {"step", "exit"} =>
          IF chunks[ci].use_transaction
             THEN autocommit = acInit
             ELSE autocommit = TRUE /\ ac = acInit

\* a notx chunk ended on a fatal error on a connection not in autocommit
C5_Witness ==
    /\ pc = "raised"
    /\ ~chunks[ci].use_transaction
    /\ ~acInit
    /\ Len(execLog) > 1


\* --------------------------------------------------- ledger: observations
CallIdx == 1..Len(calls)

\* index of the last call in I, 0 when there is none
LastOf(I) == IF I = {} THEN 0 ELSE CHOOSE i \in I : \A j \in I : j <= i

StartsOf(x) == {i \in CallIdx : calls[i].op = "start" /\ calls[i].stage = x}

StartFinishOf(x) ==
    {i \in CallIdx : calls[i].op \in {"start", "finish"} /\ calls[i].stage = x}

RegistersOf(fn) ==
    {i \in CallIdx : calls[i].op = "register" /\ AsPosix(calls[i].path) = fn}

\* files whose registration under x succeeded after the last startStage(x)
RegisteredSinceStart(x) ==
    {AsPosix(calls[i].path) :
        i \in {j \in CallIdx : /\ j > LastOf(StartsOf(x))
                               /\ calls[j].op = "register"
                               /\ calls[j].stage = x
                               /\ calls[j].res = "ok"}}

FilesOfStage(x) == {r.filename : r \in {q \in stage_file : q.stage_name = x}}

\* C6: the stage_file rows of every stage x are exactly the files registered
\* under x since the most recent startStage(x); right after startStage(x)
\* there is no row for x.
C6_AssociationsOfLastRun ==
    /\ \A x \in Stages : FilesOfStage(x) = RegisteredSinceStart(x)
    /\ \A r \in stage_file : r.stage_name \in Stages
    /\ (calls # <<>> /\ calls[Len(calls)].op = "start") =>
          FilesOfStage(calls[Len(calls)].stage) = {}

\* a stage with a registered file was started again, another stage keeps one
C6_Witness ==
    /\ calls # <<>>
    /\ calls[Len(calls)].op = "start"
    /\ \E i \in CallIdx :
          /\ calls[i].op = "register"
          /\ calls[i].res = "ok"
          /\ calls[i].stage = calls[Len(calls)].stage
          /\ i > LastOf(StartsOf(calls[i].stage) \ {Len(calls)})

\* C7: a stage_status row has finished_at and stage_key NULL exactly when
\* the last startStage/finishStage on its stage was startStage, and has
\* finished_at set and stage_key equal to the key passed exactly when it was
\* finishStage; no two rows have the same stage_name.
C7_StageRecordFollowsLastOp ==
    /\ \A r \in stage_status :
          LET i == LastOf(StartFinishOf(r.stage_name)) IN
          /\ i > 0
          /\ calls[i].op = "start" <=>
                (r.finished_at = NullTime /\ r.stage_key = NULL)
          /\ calls[i].op = "finish" <=>
                (r.finished_at = calls[i].at /\ r.stage_key = calls[i].key)
    /\ \A r1, r2 \in stage_status : r1.stage_name = r2.stage_name => r1 = r2

\* a finished stage was started again
C7_Witness ==
    /\ calls # <<>>
    /\ calls[Len(calls)].op = "start"
    /\ \E i \in CallIdx :
          /\ calls[i].op = "finish"
          /\ calls[i].key # NULL
          /\ calls[i].stage = calls[Len(calls)].stage
          /\ i = Len(calls) - 1
    /\ \E r \in stage_status : r.stage_name = calls[Len(calls)].stage

\* C8: a startStage/finishStage call made with a connection returns
\* normally, has issued the ledger statements once, and leaves its
\* transaction committed with nothing pending.
C8_ConnectionFormReturns ==
    lastCall.form = "conn" =>
       /\ lastCall.res = "ok"
       /\ lastCall.issued = (IF lastCall.op = "start" THEN 2 ELSE 1)
       /\ ltx = "idle"
       /\ saved.tables = View

\* C9: finishStage on a stage that has no stage_status row, made with a
\* usable handle, raises nothing and leaves all three tables as they were.
C9_FinishOfUnknownStageAccepted ==
    [][(/\ clock' # clock
        /\ ltx # "inerror"
        /\ lastCall'.op = "finish"
        /\ lastCall'.stage \notin StageNames(stage_status))
       => /\ lastCall'.res = "ok"
          /\ stage_status' = stage_status
          /\ source_file' = source_file
          /\ stage_file' = stage_file]_vars

\* C10: source_file has exactly one row per normalized path that was
\* registered, carrying the checksum and now() of the last registerFile call
\* for that path.
C10_OneRecordPerPathLastWins ==
    /\ FileNames(source_file) =
          {AsPosix(calls[i].path) : i \in {j \in CallIdx : calls[j].op = "register"}}
    /\ FileNames(source_file) \subseteq {<<"a">>, <<"d", "/", "a">>}
    /\ \A r \in source_file :
          LET i == LastOf(RegistersOf(r.filename)) IN
          /\ i > 0
          /\ r.checksum = calls[i].hash
          /\ r.reg_time = calls[i].at
    /\ \A r1, r2 \in source_file : r1.filename = r2.filename => r1 = r2

\* the same file was registered twice, under two spellings and two contents
C10_Witness ==
    \E i, j \in CallIdx :
       /\ i < j
       /\ calls[i].op = "register"
       /\ calls[j].op = "register"
       /\ calls[i].path # calls[j].path
       /\ AsPosix(calls[i].path) = AsPosix(calls[j].path)
       /\ calls[i].hash # calls[j].hash
       /\ Cardinality(source_file) = 1


\* --------------------------------------------------- parser: observations
LineIdx == 1..Len(lines)

\* the line begins with three dashes
StartsWithDashes(l) == Len(l) >= 3 /\ l[1] = "-" /\ l[2] = "-" /\ l[3] = "-"

\* whitespace, then three dashes
DashesAfterSpace(l) ==
    \E k \in 0..Len(l) :
       /\ \A j \in 1..k : l[j] = " "
       /\ Len(l) >= k + 3
       /\ l[k + 1] = "-" /\ l[k + 2] = "-" /\ l[k + 3] = "-"

AllSpace(l) == \A j \in 1..Len(l) : l[j] = " "

DirIdx == {i \in LineIdx : StartsWithDashes(lines[i])}

\* the directive of line i names the instruction code c
HasCode(i, c) ==
    /\ i \in DirIdx
    /\ ICodeMatch(SepInst(lines[i]))
    /\ ICode(SepInst(lines[i])) = <<c>>

NamesCode(i) == i \in DirIdx /\ ICodeMatch(SepInst(lines[i]))

\* directives parse must reject
BadIdx ==
    {i \in DirIdx :
        /\ NamesCode(i)
        /\ \/ ~(HasCode(i, "step") \/ HasCode(i, "allow") \/ HasCode(i, "notx"))
           \/ HasCode(i, "allow") /\ ~Resolvable(IArgs(SepInst(lines[i])))}

\* a body: a maximal run a..b of lines that are not directive lines
IsRun(a, b) ==
    /\ a \in LineIdx /\ b \in LineIdx /\ a <= b
    /\ \A i \in a..b : i \notin DirIdx
    /\ a = 1 \/ (a - 1) \in DirIdx
    /\ b = Len(lines) \/ (b + 1) \in DirIdx

RunEnd(a) == CHOOSE b \in LineIdx : IsRun(a, b)

\* first lines of the bodies that have a line that is not blank
BodyStarts ==
    {a \in LineIdx :
        \E b \in LineIdx : IsRun(a, b) /\ \E i \in a..b : ~AllSpace(lines[i])}

\* first line of the k-th such body
BodyStart(k) ==
    CHOOSE a \in BodyStarts : Cardinality({c \in BodyStarts : c < a}) = k - 1

FirstText(a) == CHOOSE i \in a..RunEnd(a) :
                   ~AllSpace(lines[i]) /\ \A j \in a..(i - 1) : AllSpace(lines[j])

LastText(a) == CHOOSE i \in a..RunEnd(a) :
                  ~AllSpace(lines[i]) /\ \A j \in (i + 1)..RunEnd(a) : AllSpace(lines[j])

\* the body starting at a without its leading and trailing blank lines
TrimmedBody(a) == SubSeq(lines, FirstText(a), LastText(a))

\* the directive lines right before the body starting at a
HeaderOf(a) == {j \in DirIdx : j < a /\ \A i \in j..(a - 1) : i \in DirIdx}

StepsOf(a) == {j \in HeaderOf(a) : HasCode(j, "step")}

\* the label the header of the body starting at a gives, NoLabel if none
HeaderLabel(a) ==
    IF StepsOf(a) = {} THEN NoLabel
    ELSE IArgs(SepInst(lines[CHOOSE j \in StepsOf(a) : \A i \in StepsOf(a) : i <= j]))

AllowsOf(a) == {j \in HeaderOf(a) : HasCode(j, "allow")}

Range(f) == {f[i] : i \in DOMAIN f}

\* C11: every run of the parser takes each line once, in the header or the
\* body phase, makes at most one call of _parse_chunk more than it took
\* lines (so the loop of _parse ends), ends with a chunk list or with an
\* exception and no chunk list, and a second parse of the same text ends
\* with the same chunk list.
C11_ParseTotalAndDeterministic ==
    /\ pos <= Len(lines)
    /\ Len(eaten) = pos
    /\ \A i \in 1..pos : eaten[i] \in {"header", "body"}
    /\ ncalls <= pos + 1
    /\ ppc \in {"parsing", "done", "error"}
    /\ ppc = "done" => pos = Len(lines) /\ script = parsed /\ perr = NoExc
    /\ ppc = "error" => script = NoScript /\ perr \in {"ValueError", "AttributeError"}
    /\ (pass = 2 /\ ppc = "done") => script = firstScript

\* a text with two chunks was parsed a second time
C11_Witness ==
    /\ pass = 2
    /\ ppc = "done"
    /\ Len(script) = 2
    /\ ncalls = 3

\* C12: a directive with an instruction code other than step, allow, notx,
\* or an allow whose name is not in the error-code table, makes the parse
\* fail at that line with no chunk list, whatever was parsed before it; a
\* parse fails only for such a line.
C12_BadDirectiveRejectsScript ==
    /\ \A i \in 1..pos : i \in BadIdx => (ppc = "error" /\ pos = i)
    /\ ppc = "error" =>
          /\ pos \in BadIdx
          /\ script = NoScript
          /\ perr = (IF HasCode(pos, "allow") THEN "AttributeError" ELSE "ValueError")
    /\ ppc = "done" => BadIdx = {}

\* the parse failed after a chunk had been parsed
C12_Witness ==
    /\ ppc = "error"
    /\ Len(parsed) >= 1
    /\ script = NoScript

\* C13: the chunks are the bodies that have a line that is not blank, one
\* chunk each and in order; a chunk whose header gives no label is labeled
\* "Step N" with N its position in the chunk list; a text without directive
\* lines that is not blank gives the single chunk "Step 1" with all of it.
C13_OneChunkPerBodyDefaultLabels ==
    /\ Len(parsed) <= Cardinality(BodyStarts)
    /\ ppc = "done" => Len(script) = Cardinality(BodyStarts)
    /\ \A k \in 1..Len(parsed) :
          /\ parsed[k].src = TrimmedBody(BodyStart(k))
          /\ HeaderLabel(BodyStart(k)) = NoLabel => parsed[k].label = <<"Step", k>>
    /\ (ppc = "done" /\ DirIdx = {} /\ \E i \in LineIdx : ~AllSpace(lines[i])) =>
          /\ Len(script) = 1
          /\ script[1].label = <<"Step", 1>>
          /\ script[1].src = SubSeq(lines, FirstText(1), LastText(1))

\* an empty chunk was dropped before a chunk without a label
C13_Witness ==
    /\ ppc = "done"
    /\ lines = <<LNotx, LBlank, LNote, LSql>>
    /\ Len(script) = 1
    /\ script[1].label = <<"Step", 1>>

\* C14 as stated: a line is taken by the header phase exactly when it is
\* optional whitespace, three dashes and the rest of the line.
C14_DirectiveLineAllowsLeadingSpace ==
    \A i \in 1..pos : eaten[i] = "header" <=> DashesAfterSpace(lines[i])

\* C14 amended: a line is taken by the header phase exactly when it begins
\* with three dashes; a line with whitespace before the dashes is body text.
C14_DirectiveLineStartsWithDashes ==
    \A i \in 1..pos :
       /\ eaten[i] = "header" <=> StartsWithDashes(lines[i])
       /\ eaten[i] = "body" <=> ~StartsWithDashes(lines[i])

\* an indented directive was read as the body of a chunk
C14_Witness ==
    /\ ppc = "done"
    /\ \E i \in 1..pos : lines[i] = LIndented /\ eaten[i] = "body"
    /\ \E k \in 1..Len(script) : \E j \in 1..Len(script[k].src) :
          script[k].src[j] = LIndented

\* C15: label, allowed_errors and use_transaction of a chunk follow from the
\* directive lines right before its body alone: the label of the last step
\* among them (the default if there is none), the codes of all their allow
\* directives, and use_transaction unless one of them is notx.
C15_ChunkFollowsItsHeader ==
    \A k \in 1..Len(parsed) :
       LET a == BodyStart(k) IN
       /\ parsed[k].label =
             (IF HeaderLabel(a) = NoLabel THEN <<"Step", k>> ELSE HeaderLabel(a))
       /\ Range(parsed[k].allowed_errors) =
             {ErrorCodeOf(UpperWord(IArgs(SepInst(lines[j]))[1])) : j \in AllowsOf(a)}
       /\ Len(parsed[k].allowed_errors) = Cardinality(AllowsOf(a))
       /\ parsed[k].use_transaction = ~(\E j \in HeaderOf(a) : HasCode(j, "notx"))

\* the header of a dropped chunk had notx, the next chunk is transactional
C15_Witness ==
    /\ ppc = "done"
    /\ lines = <<LNotx, LBlank, LStepA, LSql>>
    /\ script = <<[label |-> <<"a">>, allowed_errors |-> <<>>,
                   src |-> <<LSql>>, use_transaction |-> TRUE]>>

C17_NotxStatementsCommitAtOnce ==
    \A i \in LogIdx :
       LET k == execLog[i].chunk
           s == execLog[i].stmt
       IN  ~chunks[k].use_transaction =>
              /\ execLog[i].outcome = "ok" =>
                    /\ <<k, s>> \in committed
                    /\ <<k, s>> \notin pending
              /\ execLog[i].outcome # "ok" =>
                    /\ <<k, s>> \notin committed
                    /\ \A t \in 1..(s - 1) : <<k, t>> \in committed
                    /\ \A t \in (s + 1)..chunks[k].nstmts : ~Executed(k, t)
                    /\ \A j \in LogIdx : j > i => execLog[j].chunk > k

\* on a connection not in autocommit, the second statement of a notx chunk
\* failed after the first succeeded, and execute has ended
C17_Witness ==
    /\ ~acInit
    /\ pc \in {"raised", "returned"}
    /\ \E i \in LogIdx :
          /\ ~chunks[execLog[i].chunk].use_transaction
          /\ execLog[i].stmt = 2
          /\ execLog[i].outcome # "ok"
          /\ <<execLog[i].chunk, 1>> \in committed

TIdx == 1..Len(transcript)
Kind(j) == transcript[j][1]
ChunkLines(k) == {j \in TIdx : Kind(j) = "CHUNK" /\ transcript[j][2] = k}
StmtLines(k, s) ==
    {j \in TIdx : Kind(j) = "STMT" /\ transcript[j][2] = k /\ transcript[j][3] = s}
\* the loop of execute has entered chunk k
Entered(k) == k < ci \/ (k = ci /\ pc \in {"step", "exit", "raised"})

\* C18: without a sink nothing is written. With a sink: every chunk entered
\* has exactly one CHUNK line, in front of all its STMT lines and of the
\* lines of later chunks; every executed statement has exactly one STMT
\* line; a successful one is followed by ELAPSED and then by ROWS n exactly
\* when its row count n is >= 0; a tolerated failure is followed by ERROR
\* with its code, which ends the chunk; a fatal failure's STMT line ends the
\* transcript; and no other ELAPSED, ROWS, ERROR or STMT line exists.
C18_TranscriptWellFormed ==
    /\ ~sink => transcript = <<>>
    /\ sink =>
          /\ \A k \in 1..Len(chunks) :
                /\ Cardinality(ChunkLines(k)) = IF Entered(k) THEN 1 ELSE 0
                /\ \A c \in ChunkLines(k) :
                      \A j \in TIdx :
                         (Kind(j) = "CHUNK" /\ transcript[j][2] > k) \/
                         (Kind(j) = "STMT" /\ transcript[j][2] >= k) => j > c
          /\ \A i \in LogIdx :
                LET e == execLog[i]
                    P == StmtLines(e.chunk, e.stmt)
                IN  /\ Cardinality(P) = 1
                    /\ \A j \in P :
                          IF e.outcome = "ok"
                             THEN /\ j + 1 <= Len(transcript)
                                  /\ Kind(j + 1) = "ELAPSED"
                                  /\ IF e.rows >= 0
                                        THEN /\ j + 2 <= Len(transcript)
                                             /\ transcript[j + 2] = <<"ROWS", e.rows>>
                                        ELSE j + 2 <= Len(transcript) =>
                                                Kind(j + 2) \in {"STMT", "CHUNK"}
                             ELSE IF e.outcome \in chunks[e.chunk].allowed_errors
                                     THEN /\ j + 1 <= Len(transcript)
                                          /\ Kind(j + 1) = "ERROR"
                                          /\ transcript[j + 1][2] = e.outcome
                                          /\ j + 2 <= Len(transcript) =>
                                                Kind(j + 2) = "CHUNK"
                                     ELSE j = Len(transcript)
          /\ \A j \in TIdx :
                /\ Kind(j) \in {"CHUNK", "STMT", "ELAPSED", "ROWS", "ERROR"}
                /\ Kind(j) = "STMT" => Executed(transcript[j][2], transcript[j][3])
                /\ Kind(j) \in {"ELAPSED", "ERROR"} => j > 1 /\ Kind(j - 1) = "STMT"
                /\ Kind(j) = "ROWS" => j > 1 /\ Kind(j - 1) = "ELAPSED"

\* a transcript with a statement of unknown row count, one of known row
\* count, and a tolerated error followed by the next chunk
C18_Witness ==
    /\ sink
    /\ \E j \in TIdx : Kind(j) = "ROWS"
    /\ \E j \in TIdx : Kind(j) = "ELAPSED" /\ j < Len(transcript) /\ Kind(j + 1) # "ROWS"
    /\ \E j \in TIdx : Kind(j) = "ERROR" /\ j < Len(transcript) /\ Kind(j + 1) = "CHUNK"

\* ------------------------------------------------- ledger: registerFile
\* C19: a save_file call whose file cannot be read changes no row, neither
\* in the session nor committed; a call that raised has changed no committed
\* row; a call that returned with a stage given has the file's source_file
\* row and the (stage, file) association side by side.
C19_RegisterAllOrNothing ==
    [][(lastCall'.op = "register" /\ clock' = clock + 1) =>
          /\ lastCall'.res = "IOError" =>
                UNCHANGED <<stage_status, source_file, stage_file, saved>>
          /\ lastCall'.res # "ok" => saved'.tables = saved.tables
          /\ lastCall'.res = "ok" =>
                LET fn == AsPosix(calls'[Len(calls')].path)
                IN  /\ fn \in FileNames(source_file')
                    /\ lastCall'.stage # NULL =>
                          [stage_name |-> lastCall'.stage, filename |-> fn]
                             \in stage_file'
      ]_vars

\* --------------------------------------------------------- loc.py tasks
TaskNames == {"init", "init_id", "import_books", "import_names", "index_books",
              "index_names", "import_id_auth", "import_id_work"}

\* the stage each task names in s.start and s.finish
StageOf(t) ==
    CASE t = "init" -> "loc-mds-init"
      [] t = "init_id" -> "loc-id-init"
      [] t = "import_books" -> "loc-mds-books"
      [] t = "import_names" -> "loc-mds-names"
      [] t = "index_books" -> "loc-mds-book-index"
      [] t = "index_names" -> "loc-mds-name-index"
      [] t = "import_id_auth" -> "loc-id-names"
      [] t = "import_id_work" -> "loc-id-works"

\* the stage an index task passes to s.check_prereq
PrereqOf(t) ==
    CASE t = "index_books" -> "loc-mds-books"
      [] t = "index_names" -> "loc-mds-names"
      [] OTHER -> NULL

\* if s.start(..., fail=False): the body runs only when start returned true
StartGuards(t) == t \in {"init", "init_id"}

\* the tasks with a convert parameter around their pipeline
HasConvert(t) == t \in {"import_id_auth", "import_id_work"}

Event(op, stage, res) == [op |-> op, stage |-> stage, res |-> res]

\* where a task goes after s.start came back with res
AfterStart(t, conv, res) ==
    IF res = "raise" THEN "raised"
    ELSE IF StartGuards(t) /\ res = "false" THEN "returned"
    ELSE IF HasConvert(t) /\ ~conv THEN "finish"
    ELSE "work"

AfterWorkMut(res) == "finish"
\* s.psql / s.pipeline is followed by s.finish unless it raised
AfterWork(res) == IF res = "raise" THEN "raised" ELSE "finish"

\* a task is invoked with its parameters
TaskInit ==
    /\ task \in TaskNames
    /\ force \in BOOLEAN
    /\ convert \in IF HasConvert(task) THEN BOOLEAN ELSE {TRUE}
    /\ tpc = IF PrereqOf(task) # NULL THEN "prereq" ELSE "start"
    /\ tlog = <<>>

\* s.check_prereq(stage) returns or raises
CheckPrereq(res) ==
    /\ tpc = "prereq"
    /\ tlog' = Append(tlog, Event("check_prereq", PrereqOf(task), res))
    /\ tpc' = IF res = "raise" THEN "raised" ELSE "start"
    /\ UNCHANGED <<task, force, convert>>
    /\ UNCHANGED <<execVars, ledgerVars, parserVars>>

\* s.start(stage, force=force[, fail=False]) returns true or false, or raises
Start(res) ==
    /\ tpc = "start"
    /\ tlog' = Append(tlog, Event("start", StageOf(task), res))
    /\ tpc' = AfterStart(task, convert, res)
    /\ UNCHANGED <<task, force, convert>>
    /\ UNCHANGED <<execVars, ledgerVars, parserVars>>

\* s.psql(c, script) or s.pipeline([...]) returns or raises
Work(res) ==
    /\ tpc = "work"
    /\ tlog' = Append(tlog, Event("work", StageOf(task), res))
    /\ tpc' = AfterWork(res)
    /\ UNCHANGED <<task, force, convert>>
    /\ UNCHANGED <<execVars, ledgerVars, parserVars>>

\* s.finish(stage) returns or raises
Finish(res) ==
    /\ tpc = "finish"
    /\ tlog' = Append(tlog, Event("finish", StageOf(task), res))
    /\ tpc' = IF res = "raise" THEN "raised" ELSE "returned"
    /\ UNCHANGED <<task, force, convert>>
    /\ UNCHANGED <<execVars, ledgerVars, parserVars>>

TaskNext ==
    \/ \E r \in {"ok", "raise"} : CheckPrereq(r)
    \/ \E r \in {"true", "false", "raise"} : Start(r)
    \/ \E r \in {"ok", "raise"} : Work(r)
    \/ \E r \in {"ok", "raise"} : Finish(r)

\* ----------------------------------------------------- tasks: observations
TaskIdx == 1..Len(tlog)
Calls(op) == {i \in TaskIdx : tlog[i].op = op}
\* finish call i follows a start of the same stage that came back (with
\* true, for the init tasks)
StartedBefore(i) ==
    \E j \in Calls("start") :
       /\ j < i
       /\ tlog[j].stage = tlog[i].stage
       /\ tlog[j].res # "raise"
       /\ task \in {"init", "init_id"} => tlog[j].res = "true"
WorkedBefore(i) == \E j \in Calls("work") : j < i /\ tlog[j].res = "ok"

\* C20 as stated: the work runs only after start; finish is called at most
\* once, for the stage start was called with, after start came back (true
\* for the init tasks) and after the work returned without raising; when
\* the work raised, finish is not called.
C20_FinishOnlyAfterStartAndWork ==
    /\ \A i \in Calls("work") : \E j \in Calls("start") : j < i
    /\ Cardinality(Calls("finish")) <= 1
    /\ \A i \in Calls("finish") : StartedBefore(i) /\ WorkedBefore(i)
    /\ (\E i \in Calls("work") : tlog[i].res = "raise") =>
          Calls("finish") = {} /\ tpc = "raised"

\* C20 amended: as above, but import_id_auth and import_id_work invoked
\* with convert false call finish with no work run at all.
C20_FinishOnlyAfterStartAndWorkIfAny ==
    /\ \A i \in Calls("work") : \E j \in Calls("start") : j < i
    /\ Cardinality(Calls("finish")) <= 1
    /\ \A i \in Calls("finish") :
          /\ StartedBefore(i)
          /\ \/ WorkedBefore(i)
             \/ /\ task \in {"import_id_auth", "import_id_work"}
                /\ ~convert
                /\ Calls("work") = {}
    /\ (\E i \in Calls("work") : tlog[i].res = "raise") =>
          Calls("finish") = {} /\ tpc = "raised"

\* import_id_auth --no-convert has finished its stage without a pipeline run
C20_Witness ==
    /\ task = "import_id_auth"
    /\ ~convert
    /\ tpc = "returned"
    /\ Calls("finish") # {}
    /\ Calls("work") = {}

\* the ledger is not touched while a script runs, and the other way round
LedgerUnused ==
    /\ stage_status = {}
    /\ source_file = {}
    /\ stage_file = {}
    /\ calls = <<>>
    /\ saved = [tables |-> Tables({}, {}, {}), calls |-> <<>>]
    /\ lauto = FALSE
    /\ ltx = "idle"
    /\ clock = 0
    /\ lastCall = [op |-> "none", form |-> "none", stage |-> NULL, res |-> "none", issued |-> 0]

ExecUnused ==
    /\ chunks = <<>>
    /\ pc = "returned"
    /\ ci = 1
    /\ si = 1
    /\ exc = NoExc
    /\ raisedErr = NoExc
    /\ autocommit = FALSE
    /\ ac = FALSE
    /\ acInit = FALSE
    /\ txStatus = "idle"
    /\ committed = {}
    /\ pending = {}
    /\ curOpen = FALSE
    /\ closed = FALSE
    /\ execLog = <<>>
    /\ sink = FALSE
    /\ transcript = <<>>

ParserUnused ==
    /\ lines = <<>>
    /\ pos = 0
    /\ parsed = <<>>
    /\ ppc = "done"
    /\ perr = NoExc
    /\ script = <<>>
    /\ eaten = <<>>
    /\ ncalls = 0
    /\ pass = 1
    /\ firstScript = NoScript

TasksUnused ==
    /\ task = "none"
    /\ force = FALSE
    /\ convert = FALSE
    /\ tpc = "returned"
    /\ tlog = <<>>

Init == ExecInit /\ LedgerUnused /\ ParserUnused /\ TasksUnused

Next ==
    \/ EnterChunk
    \/ \E o \in {"ok"} \cup ErrCodes, r \in RowCounts : ExecStmt(o, r)
    \/ FinishStep
    \/ ExitChunk
    \/ Return

Spec == Init /\ [][Next]_vars

InitLedger == LedgerInit /\ ExecUnused /\ ParserUnused /\ TasksUnused

SpecLedger == InitLedger /\ [][LedgerNext]_vars

InitParser == ParserInit /\ ExecUnused /\ LedgerUnused /\ TasksUnused

SpecParser == InitParser /\ [][ParserNext]_vars

InitTasks == TaskInit /\ ExecUnused /\ LedgerUnused /\ ParserUnused

SpecTasks == InitTasks /\ [][TaskNext]_vars

====
